---- MODULE Spec2Model ----
(***************************************************************************)
(* A model of the Map class of src/Map/__init__.py: the resolution helper  *)
(* check_res (with check_for_digits), the boundary / fill methods that     *)
(* request a feature at the resolved scale, and barbs, which splits a      *)
(* vector field into a north-masked and a south-masked copy and hands each *)
(* to the glyph renderer.                                                  *)
(*                                                                         *)
(* Python values are records [t, s]: a string is its sequence of           *)
(* one-character strings, None is a value of its own.  A call's outcome    *)
(* is a record that either returns a value or raises an exception.         *)
(***************************************************************************)
EXTENDS Integers, Sequences, FiniteSets

VARIABLES
    self_res,    \* Map.res, the instance's default resolution
    call,        \* the call being made: its operation and its arguments
    outcome,     \* pending, or what the call returned or raised
    requested,   \* the features requested from the feature source by the call
    heap,        \* the numeric arrays that exist, by object identity
    rendered     \* the calls made to the glyph renderer (ax.barbs), in order

vars == <<self_res, call, outcome, requested, heap, rendered>>

----------------------------------------------------------------------------
(* Python values and call outcomes *)

None == [t |-> "None", s |-> <<>>]

Str(chars) == [t |-> "str", s |-> chars]

NoArg == [t |-> "noarg", s |-> <<>>]

Pending == [kind |-> "pending", value |-> None, exc |-> ""]

Return(v) == [kind |-> "return", value |-> v, exc |-> ""]

Raise(e) == [kind |-> "raise", value |-> None, exc |-> e]

----------------------------------------------------------------------------
(* Bounds and input sets of the resolution helper *)

MaxLen == 3

Alphabet == {"l", "h", "m", "x", "y", "z", "L", "o", "w", "0", "1", "5", "k"}

TokensOver(chars, n) == UNION {[1..k -> chars] : k \in 0..n}

Tokens == TokensOver(Alphabet, MaxLen)

DecimalDigits == {"0", "1", "2", "3", "4", "5", "6", "7", "8", "9"}

----------------------------------------------------------------------------
(* check_for_digits and check_res *)

isdigit(c) == c \in DecimalDigits

RECURSIVE check_loop(_, _, _)
check_loop(text, i, check) ==
    IF i > Len(text) THEN check
    ELSE check_loop(text, i + 1, IF isdigit(text[i]) THEN TRUE ELSE check)

\* A slip of the loop body, "check = i.isdigit()": only the last character counts.
check_for_digits_last(text) ==
    IF Len(text) = 0 THEN FALSE ELSE isdigit(text[Len(text)])

check_for_digits(text) == check_loop(text, 1, FALSE)

\* A variant that compares the token case-insensitively.
check_res_nocase(res, counties) ==
    IF res.t # "str" THEN Raise("TypeError")
    ELSE IF check_for_digits(res.s) = TRUE THEN Return(res)
    ELSE IF counties = FALSE
         THEN IF res.s \in {<<"l">>, <<"L">>} THEN Return(Str(<<"1", "1", "0", "m">>))
              ELSE IF res.s = <<"h">> THEN Return(Str(<<"1", "0", "m">>))
              ELSE Return(Str(<<"5", "0", "m">>))
         ELSE IF res.s \in {<<"l">>, <<"L">>} THEN Return(Str(<<"2", "0", "m">>))
              ELSE IF res.s = <<"h">> THEN Return(Str(<<"5", "0", "0", "k">>))
              ELSE Return(Str(<<"5", "m">>))

\* A strict variant that rejects a token it does not know.
check_res_strict(res, counties) ==
    IF res.t # "str" THEN Raise("TypeError")
    ELSE IF check_for_digits(res.s) = TRUE THEN Return(res)
    ELSE IF res.s \notin {<<"l">>, <<"m">>, <<"h">>} THEN Raise("ValueError")
    ELSE IF counties = FALSE
         THEN IF res.s = <<"l">> THEN Return(Str(<<"1", "1", "0", "m">>))
              ELSE IF res.s = <<"h">> THEN Return(Str(<<"1", "0", "m">>))
              ELSE Return(Str(<<"5", "0", "m">>))
         ELSE IF res.s = <<"l">> THEN Return(Str(<<"2", "0", "m">>))
              ELSE IF res.s = <<"h">> THEN Return(Str(<<"5", "0", "0", "k">>))
              ELSE Return(Str(<<"5", "m">>))

\* check_res(res, counties).  Iterating over None in check_for_digits raises
\* TypeError; a string never raises.
check_res(res, counties) ==
    IF res.t # "str" THEN Raise("TypeError")
    ELSE IF check_for_digits(res.s) = TRUE THEN Return(res)
    ELSE IF counties = FALSE
         THEN IF res.s = <<"l">> THEN Return(Str(<<"1", "1", "0", "m">>))
              ELSE IF res.s = <<"h">> THEN Return(Str(<<"1", "0", "m">>))
              ELSE Return(Str(<<"5", "0", "m">>))
         ELSE IF res.s = <<"l">> THEN Return(Str(<<"2", "0", "m">>))
              ELSE IF res.s = <<"h">> THEN Return(Str(<<"5", "0", "0", "k">>))
              ELSE Return(Str(<<"5", "m">>))

----------------------------------------------------------------------------
(* Spec: check_res applied to every token and both values of counties *)

InitResolve ==
    /\ self_res = Str(<<"m">>)
    /\ call \in {[op |-> "check_res", res |-> Str(s), counties |-> c] :
                    s \in Tokens, c \in BOOLEAN}
    /\ outcome = Pending
    /\ requested = <<>>
    /\ heap = <<>>
    /\ rendered = <<>>

CallCheckRes ==
    /\ call.op = "check_res"
    /\ outcome.kind = "pending"
    /\ outcome' = check_res(call.res, call.counties)
    /\ UNCHANGED <<self_res, call, requested, heap, rendered>>

Next == CallCheckRes

Spec == InitResolve /\ [][Next]_vars

----------------------------------------------------------------------------
(* Claims about check_res *)

HasDigit(chars) == \E i \in 1..Len(chars) : chars[i] \in DecimalDigits

Resolved == call.op = "check_res" /\ outcome.kind # "pending"

\* C1: for every token that contains at least one digit character, and for
\* both values of counties, check_res returns the token itself unchanged.
C1_DigitTokenUnchanged ==
    (Resolved /\ HasDigit(call.res.s)) => outcome = Return(call.res)

\* A token with a digit that is no scale of any dataset, resolved for counties.
C1_Witness ==
    /\ Resolved
    /\ call.res.s = <<"5", "x">>
    /\ call.counties = TRUE
    /\ outcome.kind = "return"

TableEntry(chars, counties) ==
    IF chars = <<"l">> THEN (IF counties THEN <<"2", "0", "m">> ELSE <<"1", "1", "0", "m">>)
    ELSE IF chars = <<"h">> THEN (IF counties THEN <<"5", "0", "0", "k">> ELSE <<"1", "0", "m">>)
    ELSE (IF counties THEN <<"5", "m">> ELSE <<"5", "0", "m">>)

\* C2: for every digit-free token check_res returns exactly the table entry
\* selected by exact string equality: 'l' gives "110m" or "20m" (counties),
\* 'h' gives "10m" or "500k", every other digit-free token (among them 'm',
\* the empty string, 'xyz', 'L' and 'low') gives "50m" or "5m".
C2_TableByExactEquality ==
    (Resolved /\ ~HasDigit(call.res.s)) =>
        /\ outcome = Return(Str(TableEntry(call.res.s, call.counties)))
        /\ (call.res.s \in {<<"m">>, <<>>, <<"x", "y", "z">>, <<"L">>, <<"l", "o", "w">>}
              => outcome.value.s = (IF call.counties THEN <<"5", "m">> ELSE <<"5", "0", "m">>))

\* The token 'L' resolved for a non-county boundary falls to the default "50m".
C2_Witness ==
    /\ Resolved
    /\ call.res.s = <<"L">>
    /\ call.counties = FALSE
    /\ outcome = Return(Str(<<"5", "0", "m">>))

\* C3: check_res is total on strings: for every string token, the empty
\* string included, and both values of counties, it returns a string and
\* never raises.
C3_TotalOnStrings ==
    Resolved =>
        /\ outcome.kind = "return"
        /\ outcome.value.t = "str"
        /\ outcome.value.s \in Seq(Alphabet \cup DecimalDigits)

\* The empty string resolved for counties returned a string.
C3_Witness ==
    /\ Resolved
    /\ call.res.s = <<>>
    /\ call.counties = TRUE
    /\ outcome.kind = "return"
    /\ outcome.value.t = "str"

----------------------------------------------------------------------------
(* The boundary and fill methods.  Each takes res (default None, for       *)
(* drawcounties 'l'), resolves it with check_res and requests the feature  *)
(* at that scale from the feature source.                                  *)

MaxResLen == 2

ResAlphabet == {"l", "h", "m", "5"}

ResTokens == {Str(s) : s \in TokensOver(ResAlphabet, MaxResLen)}

\* What a caller passes as res: nothing, None, or a string.
ResArgs == {NoArg, None} \cup ResTokens

\* A parameter with a default value takes the default when the caller omits it.
param(arg, default) == IF arg = NoArg THEN default ELSE arg

\* "if res is None: res = self.res"
res_or_default(res, default) == IF res = None THEN default ELSE res

\* ax.add_feature(FEATURE.with_scale(res), ...): the request the feature source sees.
add_feature(feature, res_out) == <<[feature |-> feature, scale |-> res_out.value]>>

\* The six methods that share "if res is None: res = self.res; res = self.check_res(res)".
\* artist is what the method returns: the feature artist, or None for filloceans.
boundary_method(op, feature, arg, artist) ==
    LET res0 == param(arg, None)
        res1 == res_or_default(res0, self_res)
        out  == check_res(res1, FALSE)
    IN  /\ call' = [op |-> op, res |-> arg, counties |-> FALSE]
        /\ IF out.kind = "raise"
           THEN outcome' = out /\ requested' = <<>>
           ELSE outcome' = Return(artist) /\ requested' = add_feature(feature, out)
        /\ UNCHANGED <<self_res, heap, rendered>>

Artist(name) == [t |-> "artist", s |-> <<name>>]

drawcoastlines == \E arg \in ResArgs :
    boundary_method("drawcoastlines", "COASTLINE", arg, Artist("coastlines"))

drawcountries == \E arg \in ResArgs :
    boundary_method("drawcountries", "BORDERS", arg, Artist("countries"))

drawstates == \E arg \in ResArgs :
    boundary_method("drawstates", "STATES", arg, Artist("states"))

filloceans == \E arg \in ResArgs :
    boundary_method("filloceans", "OCEAN", arg, None)

filllakes == \E arg \in ResArgs :
    boundary_method("filllakes", "LAKES", arg, Artist("lake_mask"))

fillcontinents == \E arg \in ResArgs :
    boundary_method("fillcontinents", "LAND", arg, Artist("continent_mask"))

\* drawcounties: res defaults to 'l' and goes to check_res(res, counties=True)
\* with no fallback to self.res.
drawcounties == \E arg \in ResArgs :
    LET res0 == param(arg, Str(<<"l">>))
        out  == check_res(res0, TRUE)
    IN  /\ call' = [op |-> "drawcounties", res |-> arg, counties |-> TRUE]
        /\ IF out.kind = "raise"
           THEN outcome' = out /\ requested' = <<>>
           ELSE outcome' = Return(Artist("counties"))
                /\ requested' = add_feature("USCOUNTIES", out)
        /\ UNCHANGED <<self_res, heap, rendered>>

\* Map(res=...): the instance default is any resolution string.
InitDraw ==
    /\ self_res \in ResTokens
    /\ call = [op |-> "__init__", res |-> self_res, counties |-> FALSE]
    /\ outcome = Return(None)
    /\ requested = <<>>
    /\ heap = <<>>
    /\ rendered = <<>>

NextDraw ==
    \/ drawcoastlines
    \/ drawcountries
    \/ drawstates
    \/ filloceans
    \/ filllakes
    \/ fillcontinents
    \/ drawcounties

SpecDraw == InitDraw /\ [][NextDraw]_vars

\* C10: when drawcounties is called without a resolution, the county
\* resolution requested from the feature source is the one derived from the
\* instance's default resolution (self.res resolved for counties).
C10_CountiesUseInstanceDefault ==
    (call.op = "drawcounties" /\ call.res = NoArg) =>
        requested = <<[feature |-> "USCOUNTIES",
                       scale |-> check_res(self_res, TRUE).value]>>

\* The other methods do fall back to the instance default when res is omitted.
OthersUseInstanceDefault ==
    (call.op \in {"drawcoastlines", "drawcountries", "drawstates",
                  "filloceans", "filllakes", "fillcontinents"}
       /\ call.res \in {NoArg, None}) =>
        /\ Len(requested) = 1
        /\ requested[1].scale = check_res(self_res, FALSE).value

----------------------------------------------------------------------------
(* barbs: numeric arrays, the heap, and the inputs of a call *)

MaxLat == 5

MaxLon == 3

MaxDim == 3

LatVals == {-90, -45, 0, 30, 45, 90}

\* A cell of a floating-point array is a number or the not-a-number marker.
Num(x) == [nan |-> FALSE, x |-> x]

NaN == [nan |-> TRUE, x |-> 0]

\* A coordinate argument as numpy sees it: its number of dimensions and its
\* data, a vector when it has one dimension and a grid (a sequence of rows)
\* when it has two.
Arr(n, vec, grid) == [ndim |-> n, vec |-> vec, grid |-> grid]

RECURSIVE Ascending(_)
Ascending(S) ==
    IF S = {} THEN <<>>
    ELSE LET m == CHOOSE x \in S : \A y \in S : x <= y
         IN  <<m>> \o Ascending(S \ {m})

Reverse(s) == [i \in 1..Len(s) |-> s[Len(s) + 1 - i]]

\* Latitude coordinate vectors: strictly increasing or strictly decreasing.
LatVectors ==
    LET subsets == {S \in SUBSET LatVals : S # {} /\ Cardinality(S) <= MaxLat}
    IN  {Ascending(S) : S \in subsets} \cup {Reverse(Ascending(S)) : S \in subsets}

\* Longitude coordinate vectors: 0, 10, 20, ...
LonVectors == {[i \in 1..n |-> 10 * (i - 1)] : n \in 1..MaxLon}

\* np.meshgrid(lon, lat) with 1D lon (Nx) and lat (Ny): two grids of shape (Ny, Nx).
meshgrid(lon, lat) ==
    << [i \in 1..Len(lat) |-> [j \in 1..Len(lon) |-> lon[j]]],
       [i \in 1..Len(lat) |-> [j \in 1..Len(lon) |-> lat[i]]] >>

\* The same mesh in matrix indexing, shape (Nx, Ny): what a caller may pass as 2D grids.
MeshIJ(lon, lat) ==
    << [i \in 1..Len(lon) |-> [j \in 1..Len(lat) |-> lon[i]]],
       [i \in 1..Len(lon) |-> [j \in 1..Len(lat) |-> lat[j]]] >>

\* The lon/lat argument of n dimensions built from the coordinate vectors.
CoordArg(n, vec, grid) ==
    IF n = 1 THEN Arr(1, vec, <<>>)
    ELSE IF n = 2 THEN Arr(2, <<>>, grid)
    ELSE Arr(n, <<>>, <<>>)

Rows(g) == 1..Len(g)

Cols(g) == IF Len(g) = 0 THEN {} ELSE 1..Len(g[1])

\* The value the caller's array of a given kind holds in cell (i, j).
CellValue(kind, i, j) ==
    IF kind = "one" THEN Num(1)
    ELSE IF kind = "u" THEN Num(10 * i + j)
    ELSE Num(0 - (10 * i + j))

\* An array of the shape of grid g.
Filled(g, kind) == [i \in Rows(g) |-> [j \in Cols(g) |-> CellValue(kind, i, j)]]

\* The caller's u and v: two arrays of ones, two arrays of distinct values,
\* or one array passed as both u and v.
UVKinds == {"ones", "coded", "same"}

\* Keyword options of the caller that reach the renderer.
CallerKwargs ==
    { [k \in {} |-> TRUE],
      [k \in {"flip_barb"} |-> TRUE],
      [k \in {"flip_barb"} |-> FALSE],
      [k \in {"flip_barb", "fill_empty"} |-> (k = "fill_empty")] }

BarbsCall(lonv, latv, nlon, nlat, ij, uv, kw) ==
    LET mesh == IF ij THEN MeshIJ(lonv, latv) ELSE meshgrid(lonv, latv)
        lon  == CoordArg(nlon, lonv, mesh[1])
        lat  == CoordArg(nlat, latv, mesh[2])
        \* u and v have the shape of the latitude grid
        g    == IF nlat = 2 THEN mesh[2] ELSE meshgrid(lonv, latv)[2]
        h    == IF uv = "ones" THEN <<Filled(g, "one"), Filled(g, "one")>>
                ELSE IF uv = "coded" THEN <<Filled(g, "u"), Filled(g, "v")>>
                ELSE <<Filled(g, "u")>>
    IN  [op |-> "barbs", lon |-> lon, lat |-> lat, u |-> 1, v |-> Len(h),
         kwargs |-> kw, heap0 |-> h]

\* The pairs of dimension counts of lon and lat, and whether two 2D grids are
\* given in matrix indexing.
DimCases ==
    {<<d[1], d[2], FALSE>> : d \in (0..MaxDim) \X (0..MaxDim)} \cup {<<2, 2, TRUE>>}

----------------------------------------------------------------------------
(* barbs: the steps of the method *)

\* len(np.array(x).shape)
shape_len(a) == a.ndim

\* A check whose second branch forgets lon: "elif lat_shape == 2".
dims_ok_lat2(lon_shape, lat_shape) ==
    \/ (lon_shape = 1 /\ lat_shape = 1)
    \/ lat_shape = 2

\* "if lon_shape == 1 and lat_shape == 1 ... elif lon_shape == 2 and lat_shape == 2
\* ... else raise ValueError"
dims_ok(lon_shape, lat_shape) ==
    \/ (lon_shape = 1 /\ lat_shape = 1)
    \/ (lon_shape = 2 /\ lat_shape = 2)

\* An assignment in place of a copy: "u_nh = u".
copy_alias(h, ref) == [heap |-> h, ref |-> ref]

\* u.copy(): a new array object holding the same values.
copy(h, ref) == [heap |-> Append(h, h[ref]), ref |-> Len(h) + 1]

\* A northern mask that also drops the equator: "lat <= 0.0".
north_mask_le(lat) ==
    [i \in Rows(lat) |-> [j \in Cols(lat) |-> (lat[i][j] <= 0 \/ lat[i][j] = 90)]]

\* np.logical_or(lat < 0.0, lat == 90.0)
north_mask(lat) ==
    [i \in Rows(lat) |-> [j \in Cols(lat) |-> (lat[i][j] < 0 \/ lat[i][j] = 90)]]

\* A southern mask that forgets the pole: "lat > 0.0" alone.
south_mask_nopole(lat) ==
    [i \in Rows(lat) |-> [j \in Cols(lat) |-> (lat[i][j] > 0)]]

\* np.logical_or(lat > 0.0, lat == -90.0)
south_mask(lat) ==
    [i \in Rows(lat) |-> [j \in Cols(lat) |-> (lat[i][j] > 0 \/ lat[i][j] = -90)]]

\* A masked assignment with the mask inverted: "a[~mask] = np.nan".
masked_assign_inverted(h, ref, mask) ==
    [h EXCEPT ![ref] =
        [i \in Rows(@) |-> [j \in Cols(@) |-> IF mask[i][j] THEN @[i][j] ELSE NaN]]]

\* a[mask] = np.nan, in place, on the array object ref
masked_assign(h, ref, mask) ==
    [h EXCEPT ![ref] =
        [i \in Rows(@) |-> [j \in Cols(@) |-> IF mask[i][j] THEN NaN ELSE @[i][j]]]]

\* The options of the north call: the caller's own.
north_kwargs(kwargs) == kwargs

\* A flip flag that yields to the caller's: kwargs.setdefault('flip_barb', True).
south_kwargs_setdefault(kwargs) ==
    [k \in DOMAIN kwargs \cup {"flip_barb"} |->
        IF k \in DOMAIN kwargs THEN kwargs[k] ELSE TRUE]

\* kwargs['flip_barb'] = True
south_kwargs(kwargs) ==
    [k \in DOMAIN kwargs \cup {"flip_barb"} |->
        IF k = "flip_barb" THEN TRUE ELSE kwargs[k]]

\* One call of ax.barbs(lon, lat, u, v, **kwargs): the array objects handed
\* over, the values they hold at the call, and the options.
barbs_call(lon, lat, h, u, v, kwargs) ==
    [lon |-> lon, lat |-> lat, u |-> u, v |-> v,
     udata |-> h[u], vdata |-> h[v], kwargs |-> kwargs]

BarbPair == [t |-> "tuple", s |-> <<"barb_nh", "barb_sh">>]

\* The whole method.  The renderer is a collaborator that may raise on either call.
barbs ==
    /\ call.op = "barbs"
    /\ outcome.kind = "pending"
    /\ \E north_ok \in BOOLEAN, south_ok \in BOOLEAN :
        LET lon_shape == shape_len(call.lon)
            lat_shape == shape_len(call.lat)
        IN  IF ~dims_ok(lon_shape, lat_shape)
            THEN /\ outcome' = Raise("ValueError")
                 /\ UNCHANGED <<heap, rendered>>
            ELSE
              LET mesh == IF lon_shape = 1 /\ lat_shape = 1
                          THEN meshgrid(call.lon.vec, call.lat.vec)
                          ELSE <<call.lon.grid, call.lat.grid>>
                  lon  == mesh[1]
                  lat  == mesh[2]
                  c1   == copy(heap, call.u)
                  h1   == masked_assign(c1.heap, c1.ref, north_mask(lat))
                  c2   == copy(h1, call.v)
                  h2   == masked_assign(c2.heap, c2.ref, north_mask(lat))
                  nh   == barbs_call(lon, lat, h2, c1.ref, c2.ref,
                                     north_kwargs(call.kwargs))
                  c3   == copy(h2, call.u)
                  h3   == masked_assign(c3.heap, c3.ref, south_mask(lat))
                  c4   == copy(h3, call.v)
                  h4   == masked_assign(c4.heap, c4.ref, south_mask(lat))
                  sh   == barbs_call(lon, lat, h4, c3.ref, c4.ref,
                                     south_kwargs(call.kwargs))
              IN  IF ~north_ok
                  THEN /\ heap' = h2
                       /\ rendered' = <<nh>>
                       /\ outcome' = Raise("RendererError")
                  ELSE /\ heap' = h4
                       /\ rendered' = <<nh, sh>>
                       /\ outcome' = IF south_ok THEN Return(BarbPair)
                                     ELSE Raise("RendererError")
    /\ UNCHANGED <<self_res, call, requested>>

InitBarbs ==
    /\ self_res = Str(<<"m">>)
    /\ \E lonv \in LonVectors, latv \in LatVectors, d \in DimCases,
          uv \in UVKinds, kw \in CallerKwargs :
            call = BarbsCall(lonv, latv, d[1], d[2], d[3], uv, kw)
    /\ outcome = Pending
    /\ requested = <<>>
    /\ heap = call.heap0
    /\ rendered = <<>>

NextBarbs == barbs

SpecBarbs == InitBarbs /\ [][NextBarbs]_vars

----------------------------------------------------------------------------
(* Claims about barbs *)

IsBarbs == call.op = "barbs"

\* The caller's u and v as they were before the call.
U0 == call.heap0[call.u]

V0 == call.heap0[call.v]

\* The latitude of grid cell (i, j): lat[i] of the mesh of two vectors, or
\* the cell of the 2D latitude grid.
CellLat(i, j) ==
    IF call.lat.ndim = 1 THEN call.lat.vec[i] ELSE call.lat.grid[i][j]

SameShape(a, b) ==
    /\ Len(a) = Len(b)
    /\ \A i \in Rows(a) : Len(a[i]) = Len(b[i])

NorthOut == rendered[1]

SouthOut == rendered[2]

\* C4: for every grid cell the northern u and v outputs hold the missing
\* marker exactly when the cell's latitude is < 0 or == 90, and hold the
\* original u and v values of that cell in every other cell.
C4_NorthMasked ==
    (IsBarbs /\ Len(rendered) >= 1) =>
        /\ SameShape(NorthOut.udata, U0)
        /\ SameShape(NorthOut.vdata, V0)
        /\ \A i \in Rows(U0) : \A j \in Cols(U0) :
             LET out == (CellLat(i, j) < 0 \/ CellLat(i, j) = 90)
             IN  /\ (NorthOut.udata[i][j] = NaN) <=> out
                 /\ (NorthOut.vdata[i][j] = NaN) <=> out
                 /\ ~out => /\ NorthOut.udata[i][j] = U0[i][j]
                            /\ NorthOut.vdata[i][j] = V0[i][j]

\* A north output over a grid that has the equator, a latitude between 0 and
\* 90, the pole and a southern latitude, with distinct u and v values.
C4_Witness ==
    /\ IsBarbs
    /\ Len(rendered) >= 1
    /\ call.lat = Arr(1, <<-45, 0, 45, 90>>, <<>>)
    /\ call.lon.ndim = 1
    /\ U0 # V0
    /\ NorthOut.udata[2] = U0[2]
    /\ NorthOut.udata[4][1] = NaN

\* C5: for every grid cell the southern u and v outputs hold the missing
\* marker exactly when the cell's latitude is > 0 or == -90, and hold the
\* original u and v values of that cell in every other cell.
C5_SouthMasked ==
    (IsBarbs /\ Len(rendered) >= 2) =>
        /\ SameShape(SouthOut.udata, U0)
        /\ SameShape(SouthOut.vdata, V0)
        /\ \A i \in Rows(U0) : \A j \in Cols(U0) :
             LET out == (CellLat(i, j) > 0 \/ CellLat(i, j) = -90)
             IN  /\ (SouthOut.udata[i][j] = NaN) <=> out
                 /\ (SouthOut.vdata[i][j] = NaN) <=> out
                 /\ ~out => /\ SouthOut.udata[i][j] = U0[i][j]
                            /\ SouthOut.vdata[i][j] = V0[i][j]

\* A south output over a 2D latitude grid that has the south pole, a latitude
\* between -90 and 0, the equator and a northern latitude.
C5_Witness ==
    /\ IsBarbs
    /\ Len(rendered) >= 2
    /\ call.lat.ndim = 2
    /\ call.lat.grid[1] = <<-90, -45, 0, 45>>
    /\ U0 # V0
    /\ SouthOut.vdata[1] = <<NaN, V0[1][2], V0[1][3], NaN>>

\* The setup of the worked example: lon = [0, 10], lat = [-90, -45, 0, 45, 90],
\* u and v constant 1.0 on the 5 x 2 mesh, both hemispheres rendered.
C6_Setup ==
    /\ IsBarbs
    /\ call.lon = Arr(1, <<0, 10>>, <<>>)
    /\ call.lat = Arr(1, <<-90, -45, 0, 45, 90>>, <<>>)
    /\ U0 = [i \in 1..5 |-> [j \in 1..2 |-> Num(1)]]
    /\ V0 = U0
    /\ Len(rendered) = 2

\* In the arrays u and v, the rows of keep hold 1.0 and the rows of miss hold the marker.
RowsAre(u, v, keep, miss) ==
    /\ Len(u) = 5 /\ Len(v) = 5
    /\ \A i \in 1..5 :
        /\ call.lat.vec[i] \in keep => (u[i] = <<Num(1), Num(1)>> /\ v[i] = <<Num(1), Num(1)>>)
        /\ call.lat.vec[i] \in miss => (u[i] = <<NaN, NaN>> /\ v[i] = <<NaN, NaN>>)

\* C6 as stated: in the north outputs the rows with lat in {-45, 0, 45} retain
\* 1.0 and the rows with lat in {-90, 90} are missing; in the south outputs
\* only the row with lat -90 retains 1.0 and the rows with lat in
\* {-45, 0, 45, 90} are missing.
C6_AsStated ==
    C6_Setup =>
        /\ RowsAre(NorthOut.udata, NorthOut.vdata, {-45, 0, 45}, {-90, 90})
        /\ RowsAre(SouthOut.udata, SouthOut.vdata, {-90}, {-45, 0, 45, 90})

\* C6 (amended): in the north outputs the rows with lat in {0, 45} retain 1.0
\* and the rows with lat in {-90, -45, 90} are missing; in the south outputs
\* the rows with lat in {-45, 0} retain 1.0 and the rows with lat in
\* {-90, 45, 90} are missing.
C6_Amended ==
    C6_Setup =>
        /\ RowsAre(NorthOut.udata, NorthOut.vdata, {0, 45}, {-90, -45, 90})
        /\ RowsAre(SouthOut.udata, SouthOut.vdata, {-45, 0}, {-90, 45, 90})

\* The worked example has been run to its return.
C6_Witness == C6_Setup /\ outcome.kind = "return"

BothOneOrBothTwo ==
    \/ (call.lon.ndim = 1 /\ call.lat.ndim = 1)
    \/ (call.lon.ndim = 2 /\ call.lat.ndim = 2)

\* C7: called with lon and lat of any combination of dimensions other than
\* both 1D or both 2D, barbs fails with the grid-shape error (ValueError)
\* before any masking and before any call to the renderer.
C7_BadDimsRejectedFirst ==
    (IsBarbs /\ outcome.kind # "pending" /\ ~BothOneOrBothTwo) =>
        /\ outcome = Raise("ValueError")
        /\ rendered = <<>>
        /\ heap = call.heap0

\* lon of length 3 and lat of shape (4, 3) were rejected.
C7_Witness ==
    /\ IsBarbs
    /\ call.lon.ndim = 1 /\ Len(call.lon.vec) = 3
    /\ call.lat.ndim = 2 /\ Len(call.lat.grid) = 4 /\ Len(call.lat.grid[1]) = 3
    /\ outcome = Raise("ValueError")

\* The array objects handed to the renderer, in order.
OutRefs ==
    [k \in 1..(2 * Len(rendered)) |->
        IF k % 2 = 1 THEN rendered[(k + 1) \div 2].u ELSE rendered[k \div 2].v]

\* C8: barbs never changes the caller's u and v, whether it returns or fails,
\* and the north and south outputs are independent copies: array objects
\* distinct from each other and from the inputs, each still holding what it
\* held when it was handed to the renderer.
C8_InputsUntouched ==
    (IsBarbs /\ outcome.kind # "pending") =>
        /\ heap[call.u] = U0
        /\ heap[call.v] = V0
        /\ \A k \in DOMAIN OutRefs :
            /\ OutRefs[k] \notin {call.u, call.v}
            /\ \A l \in DOMAIN OutRefs : (k # l) => OutRefs[k] # OutRefs[l]
        /\ \A n \in 1..Len(rendered) :
            /\ heap[rendered[n].u] = rendered[n].udata
            /\ heap[rendered[n].v] = rendered[n].vdata

\* A returned call whose four outputs each had the marker written into them.
C8_Witness ==
    /\ IsBarbs
    /\ outcome.kind = "return"
    /\ Len(rendered) = 2
    /\ \A n \in 1..2 : \E i \in Rows(U0) : \E j \in Cols(U0) :
         heap[rendered[n].u][i][j] = NaN /\ heap[rendered[n].v][i][j] = NaN
    /\ \A i \in Rows(U0) : \A j \in Cols(U0) : heap[call.u][i][j] # NaN

\* A failed call (the renderer raised on the north call) after the north copies were masked.
C8_WitnessFailed ==
    /\ IsBarbs
    /\ outcome = Raise("RendererError")
    /\ Len(rendered) = 1
    /\ \E i \in Rows(U0) : \E j \in Cols(U0) : heap[rendered[1].u][i][j] = NaN

IsNorthData(d, orig) ==
    \A i \in Rows(orig) : \A j \in Cols(orig) :
        d[i][j] = IF CellLat(i, j) < 0 \/ CellLat(i, j) = 90 THEN NaN ELSE orig[i][j]

IsSouthData(d, orig) ==
    \A i \in Rows(orig) : \A j \in Cols(orig) :
        d[i][j] = IF CellLat(i, j) > 0 \/ CellLat(i, j) = -90 THEN NaN ELSE orig[i][j]

\* C9: a successful barbs call hands data to the renderer exactly twice, first
\* the north-masked u/v and then the south-masked u/v; the south call always
\* carries the flip flag set to true, whatever the caller passed, and the
\* north call carries only the caller's own options.
C9_TwoCallsNorthThenSouth ==
    (IsBarbs /\ outcome.kind = "return") =>
        /\ Len(rendered) = 2
        /\ IsNorthData(NorthOut.udata, U0) /\ IsNorthData(NorthOut.vdata, V0)
        /\ IsSouthData(SouthOut.udata, U0) /\ IsSouthData(SouthOut.vdata, V0)
        /\ NorthOut.kwargs = call.kwargs
        /\ DOMAIN SouthOut.kwargs = DOMAIN call.kwargs \cup {"flip_barb"}
        /\ SouthOut.kwargs["flip_barb"] = TRUE
        /\ \A k \in DOMAIN call.kwargs \ {"flip_barb"} :
             SouthOut.kwargs[k] = call.kwargs[k]

\* A returned call whose caller passed flip_barb = False and another option:
\* north kept the caller's False, south got True.
C9_Witness ==
    /\ IsBarbs
    /\ outcome.kind = "return"
    /\ DOMAIN call.kwargs = {"flip_barb", "fill_empty"}
    /\ call.kwargs["flip_barb"] = FALSE
    /\ NorthOut.kwargs["flip_barb"] = FALSE
    /\ SouthOut.kwargs["flip_barb"] = TRUE
    /\ NorthOut.udata # SouthOut.udata

====
